---- MODULE Spec2Model ----
(***************************************************************************)
(* The master process of git-push-deploy-daemon (gpdd): the worker         *)
(* registry, the rolling reload, scale up/down, crash-restart and graceful *)
(* shutdown of src/unnamed/part_001 (master.ts), with the /stop route of   *)
(* src/src/ipc.ts.                                                         *)
(*                                                                         *)
(* Node runs every callback to completion, and the continuation of an      *)
(* `await` runs as a microtask before the next event is dispatched.  One   *)
(* action is therefore one event (a command, a worker message, a worker    *)
(* exit, a timer) together with every continuation it resumes, up to the   *)
(* next suspension.  Handlers are written as operators from a state record *)
(* to a state record so that they can be sequenced as the code does.       *)
(*                                                                         *)
(* Children are numbered in fork order; a child's pid is that number.      *)
(* cluster.workers holds a child from fork until its exit is reported.     *)
(* Timers are abstracted to "may fire at any later time".                  *)
(***************************************************************************)
EXTENDS Naturals, Sequences, FiniteSets

\* Bounds of the model.
MaxInitWorkers == 2      \* numWorkers is drawn from 1..MaxInitWorkers
MaxWorkerId == 4         \* forks stop once nextWorkerId reaches this
MaxPendingStops == 1     \* POST /stop timers in flight at once
MaxProbedWorkerId == 3   \* the bound on nextWorkerId when readyUrl is configured
MaxStopTries == 2        \* stands for the 60 polls of `gpdr stop`
MaxObservedWorkerId == 3 \* the bound on nextWorkerId when what a step puts out
                         \* (an IPC response, a health callback) is in the state
MaxThreshold == 2        \* options.threshold is drawn from 1..MaxThreshold
MaxColdWorkerId == 2     \* the bound on nextWorkerId when the master is followed
                         \* through the readiness waits of its first workers

VARIABLES
  workers,          \* the registry: id -> [pid, state]
  clusterWorkers,   \* cluster.workers: pids of the children not yet reported dead
  isShuttingDown,
  isReloading,
  isScalingDown,
  nextWorkerId,
  sent,             \* pid of a live child -> number of 'shutdown' tokens sent to it
  killed,           \* pids of the live children that worker.kill() has signalled
  rlPc,             \* handleReload: "idle", "waitReady" or "waitExit"
  rlSnap,           \* handleReload: currentWorkers, the ids snapshot
  rlIdx,            \* handleReload: position of the loop in currentWorkers
  rlNew,            \* handleReload: newWorkerId of the current step
  sdPc,             \* handleScaleDown: "idle" or "waitExit"
  sdId,             \* handleScaleDown: id being retired
  shutdownTimers,   \* armed top-level grace timers of handleShutdown
  checkIntervals,   \* armed 100 ms intervals of handleShutdown
  pendingStops,     \* POST /stop acknowledged, its 100 ms timer not yet fired
  master,           \* "running" or "exited"; during `gpdr start`: "cli"
                    \* (handleStart entered), "checked" (pid check passed),
                    \* "binding" (pid file written, listen pending)
  exitCode,         \* status given to process.exit; NoExit while running
  timedOut,         \* whether the top-level grace timer has fired
  pidFile,          \* .gpd-runtime.pid exists
  pidNames,         \* the process the pid file names: "self" (this master),
                    \* "live" (another live process of this user), "foreign"
                    \* (a live process of another user), "dead" (no such
                    \* process); "none" when there is no pid file
  portFile,         \* .gpd-runtime.port exists
  ipcServer,        \* the IPC server is listening
  spawnFails,       \* environment: cluster.fork() currently throws
  spPc,             \* `gpdr stop`: "idle" (not run), "wait" (in its poll loop)
                    \* or "done" (the process has ended)
  spTries,          \* `gpdr stop`: the counter tries of its poll loop
  spExit,           \* `gpdr stop`: its exit status; NoExit until it ends
  readyUrl,         \* whether options.readyUrl is configured
  listening,        \* pids of the live children whose accept loop is up on
                    \* the shared listening socket (kept only where the
                    \* children's servers are followed, {} elsewhere)
  other,            \* a second `gpdr start` run in the same directory: "none"
                    \* (not run), "cli" (handleStart entered), "checked" (pid
                    \* check passed), "running" (pid file written, it is a
                    \* master) or "refused" (it found a live master, exit 1)
  healthCheck,      \* options.healthCheck: <<>> when not configured, else
                    \* <<threshold>>
  failureCount,     \* health.ts: failureCount
  hcFired,          \* whether the last step called the onUnhealthy callback
  hcStreak,         \* history: the failed health checks since the last
                    \* healthy one and the last call of the callback
  commandCallback,  \* ipc.ts: whether startStatusServer was given onCommand
  ipcLast,          \* the HTTP response the IPC server wrote in the last
                    \* step: [route, status, forwarded]; NoResponse when the
                    \* step handled no request
  probing,          \* pollReadyUrl calls under way: id -> [pc, late]; pc is
                    \* "request" (awaiting checkHealth) or "sleep" (awaiting
                    \* the 500 ms pause), late is Date.now() >= deadline
  rlClean,          \* history: the reload in progress began with a worker in
                    \* state ready and no worker has crashed on its own since
  sdEntry,          \* history: the registry's ids when the scale-down in
                    \* progress was accepted; {} when none is in progress
  rlScenario        \* history: the reload in progress began with workers
                    \* 1..N all ready and nothing has happened since but
                    \* replacements turning ready and retired workers exiting

vars == <<workers, clusterWorkers, isShuttingDown, isReloading, isScalingDown,
          nextWorkerId, sent, killed, rlPc, rlSnap, rlIdx, rlNew, sdPc, sdId,
          shutdownTimers, checkIntervals, pendingStops, master, exitCode,
          timedOut, pidFile, pidNames, portFile, ipcServer, spawnFails,
          spPc, spTries, spExit, readyUrl, probing, commandCallback, ipcLast,
          listening, other, healthCheck, failureCount, hcFired, hcStreak,
          rlClean, sdEntry, rlScenario>>

NoExit == <<>>    \* exitCode while the master has not exited; <<code>> afterwards

NoResponse == <<>>    \* ipcLast of a step in which no request was answered

----------------------------------------------------------------------------
\* Helpers on finite maps and sets.

Put(f, k, v) == [x \in DOMAIN f \cup {k} |-> IF x = k THEN v ELSE f[x]]

Remove(f, k) == [x \in DOMAIN f \ {k} |-> f[x]]

Min(S) == CHOOSE x \in S : \A y \in S : x <= y

RECURSIVE SortedSeq(_)
SortedSeq(S) == IF S = {} THEN <<>> ELSE <<Min(S)>> \o SortedSeq(S \ {Min(S)})

\* The state as one record, so that handlers compose.  The field thrown is
\* not part of the state: it is "none" between events and tells, inside an
\* event, that the code run so far has thrown ("exception") or has rejected
\* the promise of an async function ("rejection").  The field checked, not
\* part of the state either, tells the result of the health check the event
\* has handled ("none", "healthy" or "failed").  The fields ipcLast and
\* hcFired start every event as NoResponse and FALSE: they hold what the
\* event itself puts out.
Cur ==
  [workers |-> workers, clusterWorkers |-> clusterWorkers,
   isShuttingDown |-> isShuttingDown, isReloading |-> isReloading,
   isScalingDown |-> isScalingDown, nextWorkerId |-> nextWorkerId,
   sent |-> sent, killed |-> killed, rlPc |-> rlPc, rlSnap |-> rlSnap, rlIdx |-> rlIdx,
   rlNew |-> rlNew, sdPc |-> sdPc, sdId |-> sdId,
   shutdownTimers |-> shutdownTimers, checkIntervals |-> checkIntervals,
   pendingStops |-> pendingStops, master |-> master, exitCode |-> exitCode,
   timedOut |-> timedOut, pidFile |-> pidFile, portFile |-> portFile,
   pidNames |-> pidNames, spPc |-> spPc, spTries |-> spTries, spExit |-> spExit,
   ipcServer |-> ipcServer, spawnFails |-> spawnFails, readyUrl |-> readyUrl,
   probing |-> probing, commandCallback |-> commandCallback,
   ipcLast |-> NoResponse, listening |-> listening, other |-> other,
   healthCheck |-> healthCheck, failureCount |-> failureCount,
   hcFired |-> FALSE, checked |-> "none", thrown |-> "none"]

\* Some registry entry is in state ready.
HasReady(s) == \E id \in DOMAIN s.workers : s.workers[id].state = "ready"

\* From s to t a child exited that was tracked and had never been asked to stop.
CrashedOnOwn(s, t) ==
  \E pid \in s.clusterWorkers \ t.clusterWorkers :
    /\ pid \in DOMAIN s.sent /\ s.sent[pid] = 0
    /\ \E id \in DOMAIN s.workers : s.workers[id].pid = pid

\* The history variable rlClean after the step from s to t.
CleanAfter(s, t, clean) ==
  IF ~t.isReloading THEN FALSE
  ELSE IF ~s.isReloading THEN HasReady(s)
  ELSE clean /\ ~CrashedOnOwn(s, t)

\* The history variable sdEntry after the step from s to t.
EntryAfter(s, t, entry) ==
  IF ~t.isScalingDown THEN {}
  ELSE IF ~s.isScalingDown THEN DOMAIN s.workers
  ELSE entry

\* The history variable hcStreak after a step that ends in state t.
StreakAfter(t, streak) ==
  IF t.master # "running" \/ t.checked = "healthy" \/ t.hcFired THEN 0
  ELSE IF t.checked = "failed" THEN streak + 1
  ELSE streak

\* The pool is workers 1..N, all ready, all alive, none asked to stop.
FreshPool(s) ==
  /\ s.nextWorkerId >= 1
  /\ DOMAIN s.workers = 1..s.nextWorkerId
  /\ s.clusterWorkers = 1..s.nextWorkerId
  /\ \A id \in DOMAIN s.workers :
       s.workers[id].state = "ready" /\ s.sent[s.workers[id].pid] = 0
  /\ ~s.isScalingDown /\ ~s.isShuttingDown /\ s.killed = {}

\* The step from s to t holds an event other than the reload's own moves, the
\* replacement of the current step turning ready, and the exit of the old
\* worker the reload is waiting for.
Deviates(s, t) ==
  \/ t.master # "running" \/ t.isShuttingDown \/ t.isScalingDown
  \/ t.killed # {}
  \/ /\ t.nextWorkerId # s.nextWorkerId
     /\ ~(t.nextWorkerId = s.nextWorkerId + 1 /\ t.rlNew = t.nextWorkerId)
  \/ \E pid \in s.clusterWorkers \ t.clusterWorkers :
       ~(s.rlPc = "waitExit" /\ pid = s.workers[s.rlSnap[s.rlIdx]].pid)
  \/ \E id \in DOMAIN s.workers \cap DOMAIN t.workers :
       /\ t.workers[id].state = "ready" /\ s.workers[id].state # "ready"
       /\ id # s.rlNew

\* The history variable rlScenario after the step from s to t.
ScenarioAfter(s, t, scenario) ==
  IF ~t.isReloading THEN FALSE
  ELSE IF ~s.isReloading THEN FreshPool(s)
  ELSE scenario /\ ~Deviates(s, t)

----------------------------------------------------------------------------
\* Registry and cluster lookups.

\* findWorkerByPid: the id of the registry entry with that pid, 0 for undefined.
findWorkerByPid(s, pid) ==
  IF \E id \in DOMAIN s.workers : s.workers[id].pid = pid
  THEN CHOOSE id \in DOMAIN s.workers : s.workers[id].pid = pid
  ELSE 0

\* findClusterWorker: whether cluster.workers holds a worker with that pid.
findClusterWorker(s, pid) == pid \in s.clusterWorkers

\* info.state = st on the WorkerInfo object with this id: visible in the
\* registry only while the object is still in the map.
setState(s, id, st) ==
  IF id \in DOMAIN s.workers
  THEN [s EXCEPT !.workers[id].state = st]
  ELSE s

\* worker.send('shutdown') followed by worker.disconnect(); a disconnected
\* child closes its servers.
sendShutdown(s, pid) ==
  [s EXCEPT !.sent[pid] = @ + 1, !.listening = @ \ {pid}]

\* worker.kill(): SIGTERM to the child, which may or may not die of it; no
\* effect on a child that has already exited.
kill(s, pid) ==
  IF pid \in s.clusterWorkers THEN [s EXCEPT !.killed = @ \cup {pid}] ELSE s

\* Variant of pollReadyUrl that, past the deadline, treats a worker still
\* 'starting' as the reload treats a replacement that is not ready: the child
\* is killed and its entry deleted.
pollLoopKillsOnDeadline(s, id) ==
  IF s.probing[id].late
  THEN IF id \in DOMAIN s.workers /\ s.workers[id].state = "starting"
       THEN [kill(s, s.workers[id].pid)
               EXCEPT !.workers = Remove(@, id), !.probing = Remove(@, id)]
       ELSE [s EXCEPT !.probing = Remove(@, id)]
  ELSE IF id \notin DOMAIN s.workers \/ s.workers[id].state # "starting"
       THEN [s EXCEPT !.probing = Remove(@, id)]
       ELSE [s EXCEPT !.probing[id].pc = "request"]

\* pollReadyUrl from the top of `while (Date.now() < deadline)` to its next
\* suspension: past the deadline the loop ends; with the entry gone or no
\* longer 'starting' the function returns; otherwise checkHealth is awaited.
pollLoop(s, id) ==
  IF s.probing[id].late THEN [s EXCEPT !.probing = Remove(@, id)]
  ELSE IF id \notin DOMAIN s.workers \/ s.workers[id].state # "starting"
       THEN [s EXCEPT !.probing = Remove(@, id)]
       ELSE [s EXCEPT !.probing[id].pc = "request"]

\* pollReadyUrl(workerId, url) from its call to its first suspension.
pollReadyUrl(s, id) ==
  pollLoop([s EXCEPT !.probing = Put(@, id, [pc |-> "sleep", late |-> FALSE])], id)

\* After `await checkHealth(...)` with result.status defined: info.state =
\* 'ready' on the object read before the await, then return.
pollResponse(s, id) ==
  [setState(s, id, "ready") EXCEPT !.probing = Remove(@, id)]

\* After `await checkHealth(...)` with no status (connection error or the 2 s
\* timeout): the 500 ms pause is awaited.
pollNoResponse(s, id) == [s EXCEPT !.probing[id].pc = "sleep"]

\* Variant of getNextWorkerId that hands out the lowest id not in the registry.
getNextWorkerIdLowestFree(s) ==
  Min({i \in 1..(s.nextWorkerId + 1) : i \notin DOMAIN s.workers})

\* getNextWorkerId: the value of ++nextWorkerId.
getNextWorkerId(s) == s.nextWorkerId + 1

\* forkWorker: cluster.fork(), getNextWorkerId(), workers.set(id, info), and
\* pollReadyUrl when readyUrl is set.  cluster.fork() is not in a try block:
\* when it throws, nothing of forkWorker has happened and the caller is left.
forkWorker(s) ==
  LET id == getNextWorkerId(s)
      f == [s EXCEPT !.nextWorkerId = id,
                     !.clusterWorkers = @ \cup {id},
                     !.sent = Put(@, id, 0),
                     !.workers = Put(@, id, [pid |-> id, state |-> "starting"])]
  IN IF s.spawnFails THEN [s EXCEPT !.thrown = "exception"]
     ELSE IF s.readyUrl THEN pollReadyUrl(f, id) ELSE f

\* Variant of waitForExit's timer callback that resolves without killing.
waitForExitTimeoutNoKill(s, pid) == s

\* waitForExit's timer callback: worker.kill(); resolve().  The continuation
\* of the await is applied by the caller.
waitForExitTimeout(s, pid) == kill(s, pid)

\* cleanup: removePidFile() (unlinks the pid file whatever it holds),
\* stopStatusServer() (closes the server, removes the port file).
cleanup(s) ==
  [s EXCEPT !.pidFile = FALSE, !.pidNames = "none", !.portFile = FALSE,
            !.ipcServer = FALSE, !.commandCallback = FALSE]

\* process.exit(code): nothing runs afterwards and the process's memory is gone;
\* what remains is the exit status, the files and the children.
processExit(s, code) ==
  [s EXCEPT !.master = "exited", !.exitCode = <<code>>,
            !.workers = <<>>, !.sent = <<>>, !.nextWorkerId = 0,
            !.isShuttingDown = FALSE, !.isReloading = FALSE,
            !.isScalingDown = FALSE, !.rlPc = "idle", !.rlSnap = <<>>,
            !.rlIdx = 0, !.rlNew = 0, !.sdPc = "idle", !.sdId = 0,
            !.shutdownTimers = 0, !.checkIntervals = 0, !.pendingStops = 0,
            !.probing = <<>>, !.commandCallback = FALSE, !.failureCount = 0]

----------------------------------------------------------------------------
\* handleReload, cut at its suspension points.

\* Top of one iteration of `for (const [id, info] of currentWorkers)`, or the
\* end of the loop.  The replacement is forked and waitForWorkerReady's first
\* check runs at once: the new entry is 'starting', so it arms its 100 ms poll.
\* When forkWorker throws, handleReload (an async function) ends there with
\* its promise rejected: no loop is left, and line 260 has not run.
reloadLoop(s) ==
  IF s.rlIdx > Len(s.rlSnap)
  THEN [s EXCEPT !.isReloading = FALSE, !.rlPc = "idle", !.rlSnap = <<>>,
                 !.rlIdx = 0, !.rlNew = 0]
  ELSE LET f == forkWorker(s) IN
       IF f.thrown # "none"
       THEN [f EXCEPT !.thrown = "rejection", !.rlPc = "idle"]
       ELSE [f EXCEPT !.rlPc = "waitReady", !.rlNew = f.nextWorkerId]

\* Variant of the not-ready branch that neither kills nor removes the replacement.
reloadNotReadyKeeps(s) == reloadLoop([s EXCEPT !.rlIdx = @ + 1])

\* After `await waitForWorkerReady(newWorkerId)` when it resolved false.
reloadNotReady(s) ==
  LET k == [kill(s, s.rlNew) EXCEPT !.workers = Remove(@, s.rlNew)] IN
  reloadLoop([k EXCEPT !.rlIdx = @ + 1])

\* After `await waitForWorkerReady(newWorkerId)` when it resolved true.
reloadReady(s) ==
  LET id == s.rlSnap[s.rlIdx] IN
  IF findClusterWorker(s, id)
  THEN [sendShutdown(setState(s, id, "draining"), id) EXCEPT !.rlPc = "waitExit"]
  ELSE reloadLoop([s EXCEPT !.workers = Remove(@, id), !.rlIdx = @ + 1])

\* After `await waitForExit(oldWorker, GRACE_TIMEOUT)`.
reloadAfterExit(s) ==
  LET id == s.rlSnap[s.rlIdx] IN
  reloadLoop([s EXCEPT !.workers = Remove(@, id), !.rlIdx = @ + 1])

\* Variant of handleReload that walks the snapshot from the newest worker down.
handleReloadNewestFirst(s) ==
  IF s.isReloading \/ s.isShuttingDown
  THEN s
  ELSE LET asc == SortedSeq(DOMAIN s.workers) IN
       reloadLoop([s EXCEPT !.isReloading = TRUE,
                            !.rlSnap = [i \in 1..Len(asc) |-> asc[Len(asc) + 1 - i]],
                            !.rlIdx = 1])

\* handleReload from its entry to its first suspension.
handleReload(s) ==
  IF s.isReloading \/ s.isShuttingDown
  THEN s
  ELSE reloadLoop([s EXCEPT !.isReloading = TRUE,
                            !.rlSnap = SortedSeq(DOMAIN s.workers),
                            !.rlIdx = 1])

\* Variant of waitForWorkerReady whose check() has no deadline.
waitForWorkerReadyNoDeadline(s, deadlinePassed) ==
  IF s.rlNew \notin DOMAIN s.workers THEN "failed"
  ELSE IF s.workers[s.rlNew].state = "ready" THEN "ready"
  ELSE "again"

\* Variant of waitForWorkerReady that resolves true when the deadline passes.
waitForWorkerReadyOnDeadline(s, deadlinePassed) ==
  IF s.rlNew \notin DOMAIN s.workers THEN "failed"
  ELSE IF s.workers[s.rlNew].state = "ready" THEN "ready"
  ELSE IF deadlinePassed THEN "ready"
  ELSE "again"

\* waitForWorkerReady's check(): "ready", "failed" or "again".
waitForWorkerReady(s, deadlinePassed) ==
  IF s.rlNew \notin DOMAIN s.workers THEN "failed"
  ELSE IF s.workers[s.rlNew].state = "ready" THEN "ready"
  ELSE IF deadlinePassed THEN "failed"
  ELSE "again"

----------------------------------------------------------------------------
\* handleScaleUp, handleScaleDown, handleShutdown.

\* Variant of handleScaleUp without the `if (isShuttingDown) return` guard.
handleScaleUpNoGuard(s) == forkWorker(s)

\* Variant of handleScaleUp whose new worker joins the list a reload in
\* progress is walking (as if the loop iterated the live registry).
handleScaleUpJoinsReload(s) ==
  IF s.isShuttingDown THEN s
  ELSE LET f == forkWorker(s) IN
       IF f.isReloading /\ f.thrown = "none"
       THEN [f EXCEPT !.rlSnap = Append(@, f.nextWorkerId)]
       ELSE f

handleScaleUp(s) == IF s.isShuttingDown THEN s ELSE forkWorker(s)

\* After `await waitForExit(worker, GRACE_TIMEOUT)` in handleScaleDown.
scaleDownAfterExit(s) ==
  [s EXCEPT !.workers = Remove(@, s.sdId), !.isScalingDown = FALSE,
            !.sdPc = "idle", !.sdId = 0]

\* The greatest element of a non-empty set of numbers.
Max(S) == CHOOSE x \in S : \A y \in S : x >= y

\* Variant of handleScaleDown that retires the newest worker (highest id).
handleScaleDownNewest(s) ==
  IF s.isShuttingDown \/ s.isReloading \/ s.isScalingDown THEN s
  ELSE IF Cardinality(DOMAIN s.workers) <= 1 THEN s
  ELSE LET id == Max(DOMAIN s.workers)
           t == [s EXCEPT !.isScalingDown = TRUE, !.sdId = id]
       IN IF findClusterWorker(t, t.workers[id].pid)
          THEN [sendShutdown(setState(t, id, "draining"), id)
                  EXCEPT !.sdPc = "waitExit"]
          ELSE scaleDownAfterExit(t)

\* Variant of handleScaleDown without the `workers.size <= 1` refusal.
handleScaleDownNoMinimum(s) ==
  IF s.isShuttingDown \/ s.isReloading \/ s.isScalingDown THEN s
  ELSE IF DOMAIN s.workers = {} THEN s
  ELSE LET id == Min(DOMAIN s.workers)
           t == [s EXCEPT !.isScalingDown = TRUE, !.sdId = id]
       IN IF findClusterWorker(t, t.workers[id].pid)
          THEN [sendShutdown(setState(t, id, "draining"), id)
                  EXCEPT !.sdPc = "waitExit"]
          ELSE scaleDownAfterExit(t)

handleScaleDown(s) ==
  IF s.isShuttingDown \/ s.isReloading \/ s.isScalingDown THEN s
  ELSE IF Cardinality(DOMAIN s.workers) <= 1 THEN s
  ELSE LET id == Min(DOMAIN s.workers)
           t == [s EXCEPT !.isScalingDown = TRUE, !.sdId = id]
       IN IF findClusterWorker(t, t.workers[id].pid)
          THEN [sendShutdown(setState(t, id, "draining"), id)
                  EXCEPT !.sdPc = "waitExit"]
          ELSE scaleDownAfterExit(t)

\* `for (const worker of Object.values(cluster.workers))`: send and disconnect.
RECURSIVE sendShutdownAll(_, _)
sendShutdownAll(s, pids) ==
  IF pids = {} THEN s
  ELSE sendShutdownAll(sendShutdown(s, Min(pids)), pids \ {Min(pids)})

\* Variant of handleShutdown that arms no top-level grace timer.
handleShutdownNoTimer(s) ==
  IF s.isShuttingDown THEN s
  ELSE [sendShutdownAll([s EXCEPT !.isShuttingDown = TRUE], s.clusterWorkers)
          EXCEPT !.checkIntervals = @ + 1]

\* Variant of handleShutdown without the `if (isShuttingDown) return` guard.
handleShutdownNoGuard(s) ==
  [sendShutdownAll([s EXCEPT !.isShuttingDown = TRUE], s.clusterWorkers)
     EXCEPT !.shutdownTimers = @ + 1, !.checkIntervals = @ + 1]

handleShutdown(s) ==
  IF s.isShuttingDown THEN s
  ELSE [sendShutdownAll([s EXCEPT !.isShuttingDown = TRUE], s.clusterWorkers)
          EXCEPT !.shutdownTimers = @ + 1, !.checkIntervals = @ + 1]

----------------------------------------------------------------------------
\* cluster.on('exit') and the continuations a worker's exit resumes.

\* Variant of cluster.on('exit') that never restarts a worker.
onExitNoRestart(s, pid) ==
  LET id == findWorkerByPid(s, pid)
      d == IF id # 0 THEN [s EXCEPT !.workers = Remove(@, id)] ELSE s
  IN IF d.isShuttingDown /\ Cardinality(DOMAIN d.workers) = 0
     THEN processExit(cleanup(d), 0)
     ELSE d

\* Variant of cluster.on('exit') that restarts whenever no shutdown has begun.
onExitAlwaysRestart(s, pid) ==
  LET id == findWorkerByPid(s, pid)
      d == IF id # 0 THEN [s EXCEPT !.workers = Remove(@, id)] ELSE s
  IN IF d.isShuttingDown
     THEN IF Cardinality(DOMAIN d.workers) = 0
          THEN processExit(cleanup(d), 0)
          ELSE d
     ELSE forkWorker(d)

onExit(s, pid) ==
  LET id == findWorkerByPid(s, pid)
      d == IF id # 0 THEN [s EXCEPT !.workers = Remove(@, id)] ELSE s
  IN IF d.isShuttingDown
     THEN IF Cardinality(DOMAIN d.workers) = 0
          THEN processExit(cleanup(d), 0)
          ELSE d
     ELSE IF ~d.isReloading /\ ~d.isScalingDown
          THEN forkWorker(d)
          ELSE d

\* The child leaves cluster.workers (and its channel is gone), cluster.on('exit') runs, then the awaits
\* on this worker's exit resume in the order they were registered
\* (handleScaleDown cannot start after handleReload).
workerExited(s, pid) ==
  LET a == onExit([s EXCEPT !.clusterWorkers = @ \ {pid},
                             !.sent = Remove(@, pid),
                             !.killed = @ \ {pid},
                             !.listening = @ \ {pid}], pid)
      b == IF a.thrown = "none" /\ a.master = "running"
              /\ a.sdPc = "waitExit" /\ a.sdId = pid
           THEN scaleDownAfterExit(a) ELSE a
      c == IF b.thrown = "none" /\ b.master = "running"
              /\ b.rlPc = "waitExit" /\ b.rlSnap[b.rlIdx] = pid
           THEN reloadAfterExit(b) ELSE b
  IN c

\* cluster.on('message'): the 'ready' token from the child with this pid.
onMessageReady(s, pid) ==
  LET id == findWorkerByPid(s, pid) IN
  IF id # 0 THEN [s EXCEPT !.workers[id].state = "ready"] ELSE s

\* The top-level grace timer of handleShutdown.
shutdownTimeout(s) == processExit(cleanup([s EXCEPT !.timedOut = TRUE]), 1)

\* One tick of handleShutdown's checkInterval.
checkInterval(s) ==
  IF Cardinality(s.clusterWorkers) = 0
  THEN processExit(cleanup([s EXCEPT !.checkIntervals = 0, !.shutdownTimers = 0]), 0)
  ELSE s

----------------------------------------------------------------------------
\* The state after startMaster: pid file and port file written, IPC server
\* up, numWorkers children forked, none ready yet.

RECURSIVE forkN(_, _)
forkN(s, n) == IF n = 0 THEN s ELSE forkN(forkWorker(s), n - 1)

Boot ==
  [workers |-> <<>>, clusterWorkers |-> {}, isShuttingDown |-> FALSE,
   isReloading |-> FALSE, isScalingDown |-> FALSE, nextWorkerId |-> 0,
   sent |-> <<>>, killed |-> {}, rlPc |-> "idle", rlSnap |-> <<>>, rlIdx |-> 0, rlNew |-> 0,
   sdPc |-> "idle", sdId |-> 0, shutdownTimers |-> 0, checkIntervals |-> 0,
   pendingStops |-> 0, master |-> "running", exitCode |-> NoExit,
   timedOut |-> FALSE, pidFile |-> TRUE, portFile |-> TRUE, ipcServer |-> TRUE,
   pidNames |-> "self", spPc |-> "idle", spTries |-> 0, spExit |-> NoExit,
   spawnFails |-> FALSE, readyUrl |-> FALSE, probing |-> <<>>,
   commandCallback |-> TRUE, ipcLast |-> NoResponse, listening |-> {},
   other |-> "none", healthCheck |-> <<>>, failureCount |-> 0,
   hcFired |-> FALSE, checked |-> "none", thrown |-> "none"]

\* The variables hold the state s; the history variables start empty.
Holds(s) ==
  /\ workers = s.workers
  /\ clusterWorkers = s.clusterWorkers
  /\ isShuttingDown = s.isShuttingDown
  /\ isReloading = s.isReloading
  /\ isScalingDown = s.isScalingDown
  /\ nextWorkerId = s.nextWorkerId
  /\ sent = s.sent
  /\ killed = s.killed
  /\ rlPc = s.rlPc
  /\ rlSnap = s.rlSnap
  /\ rlIdx = s.rlIdx
  /\ rlNew = s.rlNew
  /\ sdPc = s.sdPc
  /\ sdId = s.sdId
  /\ shutdownTimers = s.shutdownTimers
  /\ checkIntervals = s.checkIntervals
  /\ pendingStops = s.pendingStops
  /\ master = s.master
  /\ exitCode = s.exitCode
  /\ timedOut = s.timedOut
  /\ pidFile = s.pidFile
  /\ portFile = s.portFile
  /\ ipcServer = s.ipcServer
  /\ pidNames = s.pidNames
  /\ spPc = s.spPc
  /\ spTries = s.spTries
  /\ spExit = s.spExit
  /\ spawnFails = s.spawnFails
  /\ readyUrl = s.readyUrl
  /\ probing = s.probing
  /\ commandCallback = s.commandCallback
  /\ ipcLast = s.ipcLast
  /\ listening = s.listening
  /\ other = s.other
  /\ healthCheck = s.healthCheck
  /\ failureCount = s.failureCount
  /\ hcFired = s.hcFired
  /\ hcStreak = 0
  /\ rlClean = FALSE
  /\ sdEntry = {}
  /\ rlScenario = FALSE

\* The variables after startMaster has run from the module state b.
Started(b) == \E numWorkers \in 1..MaxInitWorkers : Holds(forkN(b, numWorkers))

\* Started without --ready-url: workers report ready with the 'ready' token.
Init == Started(Boot)

\* Started with --ready-url: every fork also starts a pollReadyUrl.
InitProbe == Started([Boot EXCEPT !.readyUrl = TRUE])

----------------------------------------------------------------------------
\* `gpdr start` (src/src/cli.ts handleStart, foreground) and the head of
\* startMaster, cut where the file system and the network are touched.

\* cli.ts lines 180-191.  process.kill(pid, 0) returns for a live process of
\* this user and throws otherwise: ESRCH when there is no such process, EPERM
\* when the process belongs to another user; the catch takes both the same way.
startCheck(s) ==
  IF ~s.pidFile THEN [s EXCEPT !.master = "checked"]
  ELSE IF s.pidNames \in {"self", "live"} THEN processExit(s, 1)
  ELSE [s EXCEPT !.pidFile = FALSE, !.pidNames = "none", !.master = "checked"]

\* startMaster line 69: writePidFile(process.pid), whatever the file held;
\* then startStatusServer is called (lines 73-82): it stores onCommand
\* (ipc.ts line 73) and asks the server to listen.
startWritePid(s) ==
  [s EXCEPT !.pidFile = TRUE, !.pidNames = "self", !.master = "binding",
            !.commandCallback = TRUE]

\* server.listen's callback (ipc.ts lines 162-170) writes the port file and
\* resolves; startMaster goes on (lines 83-145) and forks numWorkers workers.
startListening(s, numWorkers) ==
  forkN([s EXCEPT !.portFile = TRUE, !.ipcServer = TRUE, !.master = "running"],
        numWorkers)

\* The server emits 'error' (the port cannot be bound): ipc.ts line 172
\* rejects, startMaster and handleStart reject with it, and main().catch
\* (cli.ts lines 389-392) calls process.exit(1).
startListenError(s) == processExit(s, 1)

\* The same check (cli.ts lines 180-191) run by the second `gpdr start`: the
\* process the pid file names is alive when it is this master, not exited
\* ("self"), or another live process of this user ("live").
otherCheck(s) ==
  IF ~s.pidFile THEN [s EXCEPT !.other = "checked"]
  ELSE IF \/ s.pidNames = "live"
          \/ s.pidNames = "self" /\ s.master # "exited"
       THEN [s EXCEPT !.other = "refused"]
       ELSE [s EXCEPT !.pidFile = FALSE, !.pidNames = "none", !.other = "checked"]

\* The second `gpdr start` reaches startMaster line 69: writePidFile of its
\* own pid, whatever the file held; it goes on to run as a master.
otherWritePid(s) ==
  [s EXCEPT !.pidFile = TRUE, !.pidNames = "live", !.other = "running"]

----------------------------------------------------------------------------
\* `gpdr stop` (src/src/cli.ts handleStop) on a POSIX platform.

\* Lines 290-314.  ipcOk: sendCommand('stop') got status 200, that is, the
\* master ran its POST /stop route; otherwise SIGTERM is sent, which runs the
\* master's handleShutdown, or throws when there is no such process.
stopBegin(s, ipcOk) ==
  IF ~s.pidFile THEN [s EXCEPT !.spPc = "done", !.spExit = <<1>>]
  ELSE IF ipcOk THEN [s EXCEPT !.pendingStops = @ + 1, !.spPc = "wait"]
  ELSE IF s.master = "running" THEN [handleShutdown(s) EXCEPT !.spPc = "wait"]
  ELSE [s EXCEPT !.spPc = "done", !.spExit = <<1>>]

\* Lines 320-329, one turn of the loop: process.kill(pid, 0) throws once the
\* master is gone, and handleStop returns; main ends, exit status 0.
stopPoll(s) ==
  IF s.master = "exited"
  THEN [s EXCEPT !.spPc = "done", !.spExit = <<0>>]
  ELSE [s EXCEPT !.spTries = @ + 1]

\* Lines 331-340, after the loop: SIGKILL, then handleStop returns; main ends,
\* exit status 0.  The master dies at once, nothing of it runs; 137 is the
\* status a shell reports for a process killed by SIGKILL.
stopKill(s) ==
  LET k == IF s.master = "exited" THEN s
           ELSE [processExit(s, 137) EXCEPT !.ipcServer = FALSE]
  IN [k EXCEPT !.spPc = "done", !.spExit = <<0>>]

----------------------------------------------------------------------------
\* The request handler of the IPC server (src/src/ipc.ts lines 76-158).

\* The routes a request can name; the last stands for every other method and
\* url.  (OPTIONS and the dashboard page are answered before the API routes
\* and touch nothing; they are not drawn.)
Routes ==
  {"GET /status", "POST /reload", "POST /stop", "POST /scale/up",
   "POST /scale/down", "GET /nowhere"}

\* The command a command route passes to commandCallback.
CommandOf(route) ==
  CASE route = "POST /reload" -> "reload"
    [] route = "POST /stop" -> "stop"
    [] route = "POST /scale/up" -> "scale-up"
    [] route = "POST /scale/down" -> "scale-down"

\* onCommand as startMaster registers it (part_001 lines 75-80).
onCommand(s, cmd) ==
  CASE cmd = "reload" -> handleReload(s)
    [] cmd = "stop" -> handleShutdown(s)
    [] cmd = "scale-up" -> handleScaleUp(s)
    [] cmd = "scale-down" -> handleScaleDown(s)

\* res.writeHead(status); res.end(...).  forwarded lists the commands the
\* handling of this request has passed to commandCallback.
respond(s, route, status, forwarded) ==
  [s EXCEPT !.ipcLast = [route |-> route, status |-> status,
                         forwarded |-> forwarded]]

\* Variant of the request handler that takes every url it does not know as
\* a reload request.
handleRequestUnknownReloads(s, route) ==
  IF route = "GET /status" THEN respond(s, route, 200, <<>>)
  ELSE IF route \in {"POST /reload", "POST /scale/up", "POST /scale/down",
                     "GET /nowhere"}
       THEN IF s.commandCallback
            THEN LET cmd == IF route = "GET /nowhere" THEN "reload"
                            ELSE CommandOf(route)
                     r == onCommand(s, cmd)
                 IN IF r.thrown = "exception" THEN r
                    ELSE respond(r, route, 200, <<cmd>>)
            ELSE respond(s, route, 500, <<>>)
  ELSE IF s.commandCallback
       THEN respond([s EXCEPT !.pendingStops = @ + 1], route, 200, <<>>)
       ELSE respond(s, route, 500, <<>>)

\* The request handler.  The three synchronous command routes call
\* commandCallback before they answer, so an exception of the handler leaves
\* the request unanswered; POST /stop answers and arms the 100 ms timer whose
\* callback is commandCallback('stop').
handleRequest(s, route) ==
  IF route = "GET /status" THEN respond(s, route, 200, <<>>)
  ELSE IF route \in {"POST /reload", "POST /scale/up", "POST /scale/down"}
       THEN IF s.commandCallback
            THEN LET r == onCommand(s, CommandOf(route)) IN
                 IF r.thrown = "exception" THEN r
                 ELSE respond(r, route, 200, <<CommandOf(route)>>)
            ELSE respond(s, route, 500, <<>>)
  ELSE IF route = "POST /stop"
       THEN IF s.commandCallback
            THEN respond([s EXCEPT !.pendingStops = @ + 1], route, 200, <<>>)
            ELSE respond(s, route, 500, <<>>)
  ELSE respond(s, route, 404, <<>>)

----------------------------------------------------------------------------
\* The health check (the health module, kept in
\* src/src/test/zero-downtime.test.ts from line 147).

\* The callback startMaster hands to startHealthCheck (part_001 lines 97-101).
onUnhealthy(s) == handleReload(s)

\* Variant of performCheck that keeps failureCount on a healthy result.
performCheckKeepsCount(s, healthy) ==
  IF healthy THEN [s EXCEPT !.checked = "healthy"]
  ELSE LET c == [s EXCEPT !.failureCount = @ + 1, !.checked = "failed"] IN
       IF c.failureCount >= c.healthCheck[1]
       THEN [onUnhealthy(c) EXCEPT !.failureCount = 0, !.hcFired = TRUE]
       ELSE c

\* performCheck after `await checkHealth(...)`; healthy is result.healthy.
\* (onUnhealthy is set from startHealthCheck to stopHealthCheck, that is,
\* for as long as the master runs.)
performCheck(s, healthy) ==
  IF healthy THEN [s EXCEPT !.failureCount = 0, !.checked = "healthy"]
  ELSE LET c == [s EXCEPT !.failureCount = @ + 1, !.checked = "failed"] IN
       IF c.failureCount >= c.healthCheck[1]
       THEN [onUnhealthy(c) EXCEPT !.failureCount = 0, !.hcFired = TRUE]
       ELSE c

----------------------------------------------------------------------------
\* What the event loop is left with when a callback ends in state r.  Nothing
\* in the program catches: an exception that leaves a listener or a timer
\* callback is uncaught and ends the process with status 1, no cleanup run;
\* a rejected promise of an async handler is nobody's, which ends the process
\* the same way on a Node that throws on unhandled rejections and is only
\* warned about on one that does not.
Outcomes(r) ==
  IF r.thrown = "none" THEN {r}
  ELSE LET c == [r EXCEPT !.thrown = "none"]
           dead == [processExit(c, 1) EXCEPT !.ipcServer = FALSE]
       IN IF r.thrown = "exception" THEN {dead} ELSE {dead, c}

\* The next state is r; a step that would fork past MaxWorkerId (past
\* MaxProbedWorkerId when every fork also starts a probe) is not taken.
\* (r is bound once, so that the handler that produced it is evaluated once.)
Becomes(r) ==
  \E q \in {r} : \E s \in Outcomes(q) :
    /\ s.nextWorkerId <= (IF s.readyUrl THEN MaxProbedWorkerId ELSE MaxWorkerId)
    /\ rlClean' = CleanAfter(Cur, s, rlClean)
    /\ sdEntry' = EntryAfter(Cur, s, sdEntry)
    /\ rlScenario' = ScenarioAfter(Cur, s, rlScenario)
    /\ workers' = s.workers
    /\ clusterWorkers' = s.clusterWorkers
    /\ isShuttingDown' = s.isShuttingDown
    /\ isReloading' = s.isReloading
    /\ isScalingDown' = s.isScalingDown
    /\ nextWorkerId' = s.nextWorkerId
    /\ sent' = s.sent
    /\ killed' = s.killed
    /\ rlPc' = s.rlPc
    /\ rlSnap' = s.rlSnap
    /\ rlIdx' = s.rlIdx
    /\ rlNew' = s.rlNew
    /\ sdPc' = s.sdPc
    /\ sdId' = s.sdId
    /\ shutdownTimers' = s.shutdownTimers
    /\ checkIntervals' = s.checkIntervals
    /\ pendingStops' = s.pendingStops
    /\ master' = s.master
    /\ exitCode' = s.exitCode
    /\ timedOut' = s.timedOut
    /\ pidFile' = s.pidFile
    /\ portFile' = s.portFile
    /\ ipcServer' = s.ipcServer
    /\ pidNames' = s.pidNames
    /\ spPc' = s.spPc
    /\ spTries' = s.spTries
    /\ spExit' = s.spExit
    /\ spawnFails' = s.spawnFails
    /\ readyUrl' = s.readyUrl
    /\ probing' = s.probing
    /\ commandCallback' = s.commandCallback
    /\ ipcLast' = s.ipcLast
    /\ listening' = s.listening
    /\ other' = s.other
    /\ healthCheck' = s.healthCheck
    /\ failureCount' = s.failureCount
    /\ hcFired' = s.hcFired
    /\ hcStreak' = StreakAfter(s, hcStreak)

----------------------------------------------------------------------------
\* Actions: one per event the master's event loop dispatches.

Running == master = "running"

\* The step A, not taken when it would fork past worker id n.
ForksUpTo(A, n) == A /\ nextWorkerId' <= n

\* SIGHUP, POST /reload, or the health-check callback.
Reload == Running /\ Becomes(handleReload(Cur))

\* POST /scale/up.
ScaleUp == Running /\ ipcServer /\ Becomes(handleScaleUp(Cur))

\* POST /scale/down.
ScaleDown == Running /\ ipcServer /\ Becomes(handleScaleDown(Cur))

\* SIGTERM or SIGINT.
Shutdown == Running /\ Becomes(handleShutdown(Cur))

\* Variant of POST /stop that calls commandCallback('stop') before it answers,
\* as the other routes do.
IpcStopSynchronous ==
  /\ Running /\ ipcServer
  /\ pendingStops < MaxPendingStops
  /\ Becomes(handleShutdown(Cur))

\* POST /stop: the 200 response is written and a 100 ms timer is armed.
IpcStop ==
  /\ Running /\ ipcServer
  /\ pendingStops < MaxPendingStops
  /\ Becomes([Cur EXCEPT !.pendingStops = @ + 1])

\* That timer fires: commandCallback('stop').
IpcStopFires ==
  /\ Running
  /\ pendingStops > 0
  /\ Becomes(handleShutdown([Cur EXCEPT !.pendingStops = @ - 1]))

\* A live child sends 'ready'.
WorkerReady ==
  /\ Running
  /\ \E pid \in clusterWorkers : Becomes(onMessageReady(Cur, pid))

\* The operating system reports the exit of a child.
WorkerExit ==
  /\ Running
  /\ \E pid \in clusterWorkers : Becomes(workerExited(Cur, pid))

\* waitForWorkerReady's poll resolves true: the replacement is ready.
ReloadReady ==
  /\ Running /\ rlPc = "waitReady"
  /\ \E deadlinePassed \in BOOLEAN :
       /\ waitForWorkerReady(Cur, deadlinePassed) = "ready"
       /\ Becomes(reloadReady(Cur))

\* waitForWorkerReady's poll resolves false (replacement gone, or deadline passed):
\* newWorker.kill(), workers.delete(newWorkerId), continue.
ReloadNotReady ==
  /\ Running /\ rlPc = "waitReady"
  /\ \E deadlinePassed \in BOOLEAN :
       /\ waitForWorkerReady(Cur, deadlinePassed) = "failed"
       /\ Becomes(reloadNotReady(Cur))

\* waitForExit's timer in handleReload: worker.kill(), resolve().
ReloadGraceTimeout ==
  /\ Running /\ rlPc = "waitExit"
  /\ \E k \in {waitForExitTimeout(Cur, rlSnap[rlIdx])} :
       Becomes(reloadAfterExit(k))

\* waitForExit's timer in handleScaleDown: worker.kill(), resolve().
ScaleDownGraceTimeout ==
  /\ Running /\ sdPc = "waitExit"
  /\ \E k \in {waitForExitTimeout(Cur, sdId)} :
       Becomes(scaleDownAfterExit(k))

\* The top-level grace timer of handleShutdown fires.  It is armed together
\* with the 100 ms interval and runs for GRACE_TIMEOUT, so with no child left
\* the interval's tick comes first.
ShutdownTimeout ==
  /\ Running /\ shutdownTimers > 0
  /\ clusterWorkers # {}
  /\ Becomes(shutdownTimeout(Cur))

\* handleShutdown's 100 ms interval ticks.
CheckInterval ==
  /\ Running /\ checkIntervals > 0
  /\ Becomes(checkInterval(Cur))

Next ==
  \/ Reload
  \/ ScaleUp
  \/ ScaleDown
  \/ Shutdown
  \/ IpcStop
  \/ IpcStopFires
  \/ WorkerReady
  \/ WorkerExit
  \/ ReloadReady
  \/ ReloadNotReady
  \/ ReloadGraceTimeout
  \/ ScaleDownGraceTimeout
  \/ ShutdownTimeout
  \/ CheckInterval

Spec == Init /\ [][Next]_vars

\* Timers that are armed eventually fire.
FairSpec == Spec /\ WF_vars(ShutdownTimeout) /\ WF_vars(CheckInterval)

\* waitForWorkerReady's check() runs with the deadline passed: it resolves,
\* true or false.  (A step of ReloadReady or of ReloadNotReady.)
ReloadDeadline ==
  /\ Running /\ rlPc = "waitReady"
  /\ \E c \in {Cur} : \E r \in {waitForWorkerReady(c, TRUE)} :
       /\ r # "again"
       /\ Becomes(IF r = "ready" THEN reloadReady(c) ELSE reloadNotReady(c))

\* `gpdr start`: the check of the pid file.
StartCheck == master = "cli" /\ Becomes(startCheck(Cur))

\* `gpdr start`: startMaster writes the pid file.
StartWritePid == master = "checked" /\ Becomes(startWritePid(Cur))

\* `gpdr start`: the IPC server is listening; the workers are forked.
StartListening ==
  /\ master = "binding"
  /\ \E numWorkers \in 1..MaxInitWorkers : Becomes(startListening(Cur, numWorkers))

\* `gpdr start`: the IPC server cannot bind its port.
StartListenError == master = "binding" /\ Becomes(startListenError(Cur))

\* The state in which `gpdr start` finds the directory: names tells what the
\* pid file holds; a live master has its port file next to its pid file.
PreStart(names) ==
  [Boot EXCEPT !.master = "cli", !.ipcServer = FALSE, !.commandCallback = FALSE,
               !.pidFile = (names # "none"), !.pidNames = names,
               !.portFile = (names \in {"live", "foreign"})]

InitStart == \E names \in {"none", "live", "foreign", "dead"} : Holds(PreStart(names))

NextStart ==
  \/ StartCheck
  \/ StartWritePid
  \/ StartListening
  \/ StartListenError
  \/ Next

\* The master from the moment `gpdr start` is run.
StartSpec == InitStart /\ [][NextStart]_vars

\* The second `gpdr start`: its check of the pid file.
OtherChecks == other = "cli" /\ Becomes(otherCheck(Cur))

\* The second `gpdr start`: its startMaster writes the pid file.
OtherWritesPid == other = "checked" /\ Becomes(otherWritePid(Cur))

\* Two `gpdr start` are run in a directory that holds no pid file or a stale
\* one.
InitRace ==
  \E names \in {"none", "dead"} : Holds([PreStart(names) EXCEPT !.other = "cli"])

NextRace ==
  \/ StartCheck
  \/ StartWritePid
  \/ StartListening
  \/ StartListenError
  \/ OtherChecks
  \/ OtherWritesPid
  \/ Next

\* Two `gpdr start` invocations in one working directory, interleaved.
RaceSpec == InitRace /\ [][NextRace]_vars

\* `gpdr stop` is run.
StopBegins ==
  /\ spPc = "idle"
  /\ \E ipcOk \in BOOLEAN :
       /\ ipcOk => /\ Running /\ ipcServer /\ portFile
                   /\ pendingStops < MaxPendingStops
       /\ Becomes(stopBegin(Cur, ipcOk))

\* `gpdr stop`: the 500 ms pause of its loop ends.
StopPolls ==
  /\ spPc = "wait" /\ spTries < MaxStopTries
  /\ Becomes(stopPoll(Cur))

\* `gpdr stop`: the loop has run out.
StopKills ==
  /\ spPc = "wait" /\ spTries = MaxStopTries
  /\ Becomes(stopKill(Cur))

NextStop ==
  \/ Next
  \/ StopBegins
  \/ StopPolls
  \/ StopKills

\* The master with one `gpdr stop` run against it at some moment.
StopSpec == Init /\ [][NextStop]_vars

\* cluster.fork() starts to throw (the operating system refuses the spawn).
SpawnBreaks ==
  /\ Running /\ ~spawnFails
  /\ Becomes([Cur EXCEPT !.spawnFails = TRUE])

\* cluster.fork() works again.
SpawnRecovers ==
  /\ Running /\ spawnFails
  /\ Becomes([Cur EXCEPT !.spawnFails = FALSE])

NextFail ==
  \/ Next
  \/ SpawnBreaks
  \/ SpawnRecovers

\* The master in an environment in which cluster.fork() may throw.
FailSpec == Init /\ [][NextFail]_vars

\* The timers of the reload fire: check() runs every 100 ms and comes to run
\* past its deadline, so the wait for the replacement resolves; the timer of
\* waitForExit fires, so the wait for the old worker resolves.
ReloadTimersSpec ==
  Spec /\ WF_vars(ReloadDeadline) /\ WF_vars(ReloadGraceTimeout)

\* The clock passes the deadline of a pollReadyUrl.
ProbeDeadline ==
  /\ Running
  /\ \E id \in DOMAIN probing :
       /\ ~probing[id].late
       /\ Becomes([Cur EXCEPT !.probing[id].late = TRUE])

\* checkHealth resolves with a status: some server answered the request on
\* readyUrl with an HTTP response (of whatever status code).
ProbeResponds ==
  /\ Running /\ clusterWorkers # {}
  /\ \E id \in DOMAIN probing :
       /\ probing[id].pc = "request"
       /\ Becomes(pollResponse(Cur, id))

\* checkHealth resolves without a status: connection error or 2 s timeout.
ProbeFails ==
  /\ Running
  /\ \E id \in DOMAIN probing :
       /\ probing[id].pc = "request"
       /\ Becomes(pollNoResponse(Cur, id))

\* The 500 ms pause of pollReadyUrl ends: back to the top of its loop.
ProbeWakes ==
  /\ Running
  /\ \E id \in DOMAIN probing :
       /\ probing[id].pc = "sleep"
       /\ Becomes(pollLoop(Cur, id))

NextProbe ==
  \/ Next
  \/ ProbeDeadline
  \/ ProbeResponds
  \/ ProbeFails
  \/ ProbeWakes

\* The master started with --ready-url.
ProbeSpec == InitProbe /\ [][NextProbe]_vars

NextColdStart ==
  \/ ForksUpTo(Reload, MaxColdWorkerId)
  \/ ForksUpTo(ScaleUp, MaxColdWorkerId)
  \/ ForksUpTo(ScaleDown, MaxColdWorkerId)
  \/ ForksUpTo(Shutdown, MaxColdWorkerId)
  \/ ForksUpTo(IpcStop, MaxColdWorkerId)
  \/ ForksUpTo(IpcStopFires, MaxColdWorkerId)
  \/ ForksUpTo(WorkerReady, MaxColdWorkerId)
  \/ ForksUpTo(WorkerExit, MaxColdWorkerId)
  \/ ForksUpTo(ReloadReady, MaxColdWorkerId)
  \/ ForksUpTo(ReloadNotReady, MaxColdWorkerId)
  \/ ForksUpTo(ReloadGraceTimeout, MaxColdWorkerId)
  \/ ForksUpTo(ScaleDownGraceTimeout, MaxColdWorkerId)
  \/ ForksUpTo(ShutdownTimeout, MaxColdWorkerId)
  \/ ForksUpTo(CheckInterval, MaxColdWorkerId)
  \/ ForksUpTo(ProbeDeadline, MaxColdWorkerId)
  \/ ForksUpTo(ProbeResponds, MaxColdWorkerId)
  \/ ForksUpTo(ProbeFails, MaxColdWorkerId)
  \/ ForksUpTo(ProbeWakes, MaxColdWorkerId)

\* The master started with --ready-url, followed while its first workers
\* wait to become ready.
ColdStartSpec == InitProbe /\ [][NextColdStart]_vars

\* The IPC server handles a request.
IpcRequest ==
  /\ Running /\ ipcServer
  /\ \E route \in Routes :
       /\ (route = "POST /stop" /\ commandCallback)
            => pendingStops < MaxPendingStops
       /\ \E c \in {Cur} : Becomes(handleRequest(c, route))

\* The master with its IPC server started with a command handler, as
\* startMaster of part_001 does (lines 73-82), or without one, as
\* startStatusServer allows (onCommand is optional; the master kept in
\* src/src/pid.ts starts it so, line 103).
InitIpc ==
  \E registered \in BOOLEAN : Started([Boot EXCEPT !.commandCallback = registered])

\* Commands come in as requests to the IPC server, or as signals.
NextIpc ==
  \/ ForksUpTo(IpcRequest, MaxObservedWorkerId)
  \/ ForksUpTo(Reload, MaxObservedWorkerId)
  \/ ForksUpTo(Shutdown, MaxObservedWorkerId)
  \/ ForksUpTo(IpcStopFires, MaxObservedWorkerId)
  \/ ForksUpTo(WorkerReady, MaxObservedWorkerId)
  \/ ForksUpTo(WorkerExit, MaxObservedWorkerId)
  \/ ForksUpTo(ReloadReady, MaxObservedWorkerId)
  \/ ForksUpTo(ReloadNotReady, MaxObservedWorkerId)
  \/ ForksUpTo(ReloadGraceTimeout, MaxObservedWorkerId)
  \/ ForksUpTo(ScaleDownGraceTimeout, MaxObservedWorkerId)
  \/ ForksUpTo(ShutdownTimeout, MaxObservedWorkerId)
  \/ ForksUpTo(CheckInterval, MaxObservedWorkerId)

\* The master with the requests to its IPC server told apart by route.
IpcSpec == InitIpc /\ [][NextIpc]_vars

\* A child that has not been disconnected has its server listening: from now
\* on connections to the shared socket may be handed to it.
WorkerListens ==
  /\ Running
  /\ \E pid \in clusterWorkers \ listening :
       /\ sent[pid] = 0
       /\ Becomes([Cur EXCEPT !.listening = @ \cup {pid}])

\* checkHealth resolves with a status: the request to readyUrl was accepted
\* and answered by one of the children that are listening.
ProbeServed ==
  /\ Running /\ listening # {}
  /\ \E id \in DOMAIN probing :
       /\ probing[id].pc = "request"
       /\ Becomes(pollResponse(Cur, id))

NextServe ==
  \/ ForksUpTo(Reload, MaxColdWorkerId)
  \/ ForksUpTo(ScaleUp, MaxColdWorkerId)
  \/ ForksUpTo(ScaleDown, MaxColdWorkerId)
  \/ ForksUpTo(Shutdown, MaxColdWorkerId)
  \/ ForksUpTo(IpcStop, MaxColdWorkerId)
  \/ ForksUpTo(IpcStopFires, MaxColdWorkerId)
  \/ ForksUpTo(WorkerReady, MaxColdWorkerId)
  \/ ForksUpTo(WorkerExit, MaxColdWorkerId)
  \/ ForksUpTo(ReloadReady, MaxColdWorkerId)
  \/ ForksUpTo(ReloadNotReady, MaxColdWorkerId)
  \/ ForksUpTo(ReloadGraceTimeout, MaxColdWorkerId)
  \/ ForksUpTo(ScaleDownGraceTimeout, MaxColdWorkerId)
  \/ ForksUpTo(ShutdownTimeout, MaxColdWorkerId)
  \/ ForksUpTo(CheckInterval, MaxColdWorkerId)
  \/ ForksUpTo(ProbeDeadline, MaxColdWorkerId)
  \/ ForksUpTo(ProbeServed, MaxColdWorkerId)
  \/ ForksUpTo(ProbeFails, MaxColdWorkerId)
  \/ ForksUpTo(ProbeWakes, MaxColdWorkerId)
  \/ ForksUpTo(WorkerListens, MaxColdWorkerId)

\* The master started with --ready-url, with the servers of its children
\* followed: a probe is answered only while some child is listening.
ServeSpec == InitProbe /\ [][NextServe]_vars

\* A health check comes back: checkHealth resolves, healthy or not.
HealthResult ==
  /\ Running /\ healthCheck # <<>>
  /\ \E healthy \in BOOLEAN : \E c \in {Cur} : Becomes(performCheck(c, healthy))

\* Started with --health-url: the threshold is what --health-threshold says.
InitHealth ==
  \E threshold \in 1..MaxThreshold :
    Started([Boot EXCEPT !.healthCheck = <<threshold>>])

NextHealth ==
  \/ ForksUpTo(Reload, MaxObservedWorkerId)
  \/ ForksUpTo(ScaleUp, MaxObservedWorkerId)
  \/ ForksUpTo(ScaleDown, MaxObservedWorkerId)
  \/ ForksUpTo(Shutdown, MaxObservedWorkerId)
  \/ ForksUpTo(IpcStop, MaxObservedWorkerId)
  \/ ForksUpTo(IpcStopFires, MaxObservedWorkerId)
  \/ ForksUpTo(WorkerReady, MaxObservedWorkerId)
  \/ ForksUpTo(WorkerExit, MaxObservedWorkerId)
  \/ ForksUpTo(ReloadReady, MaxObservedWorkerId)
  \/ ForksUpTo(ReloadNotReady, MaxObservedWorkerId)
  \/ ForksUpTo(ReloadGraceTimeout, MaxObservedWorkerId)
  \/ ForksUpTo(ScaleDownGraceTimeout, MaxObservedWorkerId)
  \/ ForksUpTo(ShutdownTimeout, MaxObservedWorkerId)
  \/ ForksUpTo(CheckInterval, MaxObservedWorkerId)
  \/ ForksUpTo(HealthResult, MaxObservedWorkerId)

\* The master with its health check running.
HealthSpec == InitHealth /\ [][NextHealth]_vars

\* The timer of a pending waitForExit eventually fires.
GraceSpec == Spec /\ WF_vars(ReloadGraceTimeout) /\ WF_vars(ScaleDownGraceTimeout)

----------------------------------------------------------------------------
\* Vocabulary of the properties.

\* States of the registry entries counted as serving capacity.
Capacity == {id \in DOMAIN workers : workers[id].state \in {"starting", "ready"}}

\* In this step the child pid is sent one more 'shutdown' token.
TokenSentTo(pid) ==
  pid \in DOMAIN sent /\ pid \in DOMAIN sent' /\ sent'[pid] > sent[pid]

\* In this step a token is sent to pid by the reload loop: neither a shutdown
\* nor a scale-down begins in the step.
ReloadRetires(pid) ==
  /\ TokenSentTo(pid)
  /\ isShuttingDown' = isShuttingDown
  /\ ~(isScalingDown' /\ ~isScalingDown)

\* In this step the operating system reports the exit of child pid.
Exits(pid) == pid \in clusterWorkers /\ pid \notin clusterWorkers'

\* The master keeps running through this step.
StaysUp == master = "running" /\ master' = "running"

\* C1: whenever the reload loop marks an old worker draining and sends it the
\* shutdown token, the replacement forked in that step of the loop is in the
\* registry in state ready, before and after that event; the worker retired is
\* the one the loop is at.
C1_ReadyBeforeDrain ==
  [][\A pid \in DOMAIN sent :
       ReloadRetires(pid) =>
         /\ isReloading /\ rlPc = "waitReady"
         /\ pid = rlSnap[rlIdx]
         /\ rlNew \in DOMAIN workers /\ workers[rlNew].state = "ready"
         /\ rlNew' = rlNew
         /\ rlNew \in DOMAIN workers' /\ workers'[rlNew].state = "ready"
         /\ (pid \in DOMAIN workers' => workers'[pid].state = "draining")]_vars

\* A reload step has retired the old worker while its replacement is ready.
C1_Witness ==
  /\ master = "running" /\ ~isShuttingDown /\ ~isScalingDown
  /\ rlPc = "waitExit"
  /\ sent[rlSnap[rlIdx]] = 1
  /\ rlSnap[rlIdx] \in DOMAIN workers
  /\ workers[rlSnap[rlIdx]].state = "draining"
  /\ rlNew \in DOMAIN workers /\ workers[rlNew].state = "ready"

\* C2 (as claimed): at every instant of a reload that began with N workers in
\* the registry (N = the length of the snapshot), at least N registry entries
\* are in state starting or ready.
C2_PoolNeverBelowTarget ==
  (master = "running" /\ isReloading) => Cardinality(Capacity) >= Len(rlSnap)

\* C3 (as claimed, for reloads no shutdown interrupts): while a reload is in
\* progress that began with a worker in state ready and during which no worker
\* crashed on its own, some registry entry is in state ready.
C3_AlwaysOneReady ==
  (master = "running" /\ isReloading /\ ~isShuttingDown /\ rlClean)
    => HasReady(Cur)

\* C4 (as claimed): while a reload, a scale-down or a shutdown is in progress,
\* no reload and no scale-down begins.
C4_SingleActiveTransition ==
  [][(master = "running" /\ (isReloading \/ isScalingDown \/ isShuttingDown))
       => /\ ~(isReloading' /\ ~isReloading)
          /\ ~(isScalingDown' /\ ~isScalingDown)]_vars

\* C5 (as claimed): once isShuttingDown is set no worker is forked and no entry
\* is added to the registry.
C5_ShutdownTerminal ==
  [][(StaysUp /\ isShuttingDown)
       => /\ nextWorkerId' = nextWorkerId
          /\ DOMAIN workers' \subseteq DOMAIN workers]_vars

\* C6 (as claimed): with shutdown begun and a reload in progress, the reload
\* loop, when it next resumes, forks no replacement and retires no old worker.
C6_ReloadStopsOnShutdown ==
  [][(StaysUp /\ isShuttingDown /\ isReloading)
       => /\ nextWorkerId' = nextWorkerId
          /\ \A pid \in DOMAIN sent : ~TokenSentTo(pid)]_vars

\* C7: when a tracked worker exits while no transition flag is set, in that
\* same step its entry is removed and exactly one worker is forked, in state
\* starting with a fresh larger id, so the registry keeps its size.
C7_CrashRestart ==
  [][\A pid \in clusterWorkers :
       (/\ master = "running" /\ Exits(pid)
        /\ ~isShuttingDown /\ ~isReloading /\ ~isScalingDown
        /\ findWorkerByPid(Cur, pid) # 0)
       => LET id == findWorkerByPid(Cur, pid) IN
          /\ nextWorkerId' = nextWorkerId + 1
          /\ nextWorkerId' > id
          /\ nextWorkerId' \notin DOMAIN workers
          /\ DOMAIN workers' = (DOMAIN workers \ {id}) \cup {nextWorkerId'}
          /\ Cardinality(DOMAIN workers') = Cardinality(DOMAIN workers)
          /\ workers'[nextWorkerId'].state = "starting"
          /\ nextWorkerId' \in clusterWorkers'
          /\ \A o \in DOMAIN workers \ {id} : workers'[o] = workers[o]]_vars

\* Child 1 of a pool of two has crashed and been replaced by worker 3.
C7_Witness ==
  /\ master = "running" /\ ~isShuttingDown /\ ~isReloading /\ ~isScalingDown
  /\ nextWorkerId = 3
  /\ DOMAIN workers = {2, 3} /\ clusterWorkers = {2, 3}
  /\ workers[2].state = "ready" /\ workers[3].state = "starting"
  /\ sent[2] = 0 /\ sent[3] = 0

\* C8 (as claimed): the master exits only after shutdown began and after
\* cleanup (pid file and port file removed, IPC server stopped); it exits with
\* status 0 when the registry has become empty and the grace timer has not
\* fired, and with status 1 when the grace timer fires first, that is while the
\* registry is not empty.
C8_ShutdownExitStatus ==
  [][(master = "running" /\ master' = "exited")
       => /\ isShuttingDown
          /\ ~pidFile' /\ ~portFile' /\ ~ipcServer'
          /\ \/ /\ exitCode' = <<0>> /\ ~timedOut'
                /\ \A id \in DOMAIN workers : workers[id].pid \notin clusterWorkers'
             \/ /\ exitCode' = <<1>> /\ timedOut'
                /\ DOMAIN workers # {}]_vars

\* C9: under FairSpec (armed timers eventually fire), once shutdown has begun
\* the master eventually exits.
C9_ShutdownTerminates ==
  (master = "running" /\ isShuttingDown) ~> (master = "exited")

\* The master has exited on the grace timer while children were still alive.
C9_Witness ==
  master = "exited" /\ exitCode = <<1>> /\ timedOut /\ clusterWorkers # {}

\* C10: once shutdown has begun, no step arms a further grace timer or
\* interval or clears the flag, and the only tokens still sent are the reload
\* loop's own (to the worker it is at); a stop delivered through POST /stop
\* after shutdown has begun changes nothing but the count of pending stops.
C10_ShutdownIdempotent ==
  [][/\ (StaysUp /\ isShuttingDown)
          => /\ isShuttingDown'
             /\ shutdownTimers' = shutdownTimers
             /\ checkIntervals' = checkIntervals
             /\ \A pid \in DOMAIN sent :
                  TokenSentTo(pid) => (rlPc = "waitReady" /\ pid = rlSnap[rlIdx])
     /\ (StaysUp /\ isShuttingDown /\ pendingStops' < pendingStops)
          => UNCHANGED <<workers, clusterWorkers, isShuttingDown, isReloading,
                         isScalingDown, nextWorkerId, sent, rlPc, rlSnap, rlIdx,
                         rlNew, sdPc, sdId, shutdownTimers, checkIntervals,
                         exitCode, timedOut, pidFile, portFile, ipcServer>>]_vars

\* Shutdown has begun, its one timer is armed, and a further stop is pending.
C10_Witness ==
  /\ master = "running" /\ isShuttingDown
  /\ pendingStops > 0
  /\ shutdownTimers = 1 /\ checkIntervals = 1
  /\ clusterWorkers # {}
  /\ \A pid \in clusterWorkers : sent[pid] = 1

\* In this step the reload loop leaves the wait for its replacement with the
\* answer false: the replacement is missing from the registry or not ready.
ReloadStepAborts ==
  /\ StaysUp /\ rlPc = "waitReady" /\ rlIdx' # rlIdx
  /\ ~(rlNew \in DOMAIN workers /\ workers[rlNew].state = "ready")

\* C11: when a reload step ends with the replacement not ready (deadline) or
\* gone (it exited during the wait), the replacement is killed if still alive
\* and is not in the registry afterwards, the old worker of the step keeps its
\* entry and state and is sent no token, and the loop goes on: to the next id
\* of the snapshot with a freshly forked replacement, or to its end.
C11_AbortKeepsOld ==
  [][ReloadStepAborts =>
       LET old == rlSnap[rlIdx] IN
       /\ rlNew \notin DOMAIN workers'
       /\ rlNew \in clusterWorkers' => rlNew \in killed'
       /\ old \in DOMAIN workers =>
            (old \in DOMAIN workers' /\ workers'[old] = workers[old])
       /\ ~TokenSentTo(old)
       /\ IF rlIdx < Len(rlSnap)
          THEN /\ isReloading' /\ rlSnap' = rlSnap /\ rlIdx' = rlIdx + 1
               /\ rlPc' = "waitReady"
               /\ nextWorkerId' = nextWorkerId + 1 /\ rlNew' = nextWorkerId'
               /\ workers'[rlNew'].state = "starting"
          ELSE ~isReloading' /\ rlPc' = "idle"]_vars

\* The first step of a reload of two workers was aborted on the deadline:
\* replacement 3 is killed and untracked but alive, worker 1 is still ready
\* and was sent nothing, and the loop is at worker 2 with replacement 4.
C11_Witness ==
  /\ master = "running" /\ isReloading /\ rlPc = "waitReady"
  /\ rlSnap = <<1, 2>> /\ rlIdx = 2 /\ rlNew = 4
  /\ 3 \in killed /\ 3 \in clusterWorkers /\ 3 \notin DOMAIN workers
  /\ 1 \in DOMAIN workers /\ workers[1].state = "ready" /\ sent[1] = 0

\* In this step the reload's wait for the exit of its old worker ends on the
\* timer: the loop moves on although the worker's exit was not reported.
ReloadDrainTimesOut ==
  /\ StaysUp /\ rlPc = "waitExit" /\ rlIdx' # rlIdx
  /\ rlSnap[rlIdx] \in clusterWorkers'

\* The same for the scale-down's wait.
ScaleDownDrainTimesOut ==
  /\ StaysUp /\ sdPc = "waitExit" /\ sdPc' = "idle"
  /\ sdId \in clusterWorkers'

\* The fork the reload loop needs in order to go on is beyond the bound of the
\* model.
ForkBoundReached == nextWorkerId = MaxWorkerId /\ rlIdx < Len(rlSnap)

NewIds == DOMAIN workers' \ DOMAIN workers

\* C13: the ids handed out so far are 1..nextWorkerId: every id in the
\* registry is among them, the counter never goes down while the master runs,
\* and an id that enters the registry is the one id the counter has just moved
\* to, larger than every id handed out before, whether or not those are still
\* in the registry.
C13_MonotonicIds ==
  /\ [](DOMAIN workers \subseteq 1..nextWorkerId)
  /\ [][StaysUp =>
          /\ nextWorkerId' >= nextWorkerId
          /\ NewIds # {} =>
               /\ NewIds = {nextWorkerId'}
               /\ nextWorkerId' = nextWorkerId + 1
               /\ \A id \in DOMAIN workers : id < nextWorkerId'
          /\ nextWorkerId' > nextWorkerId => nextWorkerId' \in DOMAIN workers']_vars

\* After a reload of one worker whose replacement 2 was aborted and removed,
\* a scale-up has forked worker 3, not 2 again.
C13_Witness ==
  /\ master = "running" /\ ~isReloading /\ ~isShuttingDown /\ ~isScalingDown
  /\ nextWorkerId = 3 /\ DOMAIN workers = {1, 3}
  /\ 2 \in killed /\ 2 \in clusterWorkers
  /\ workers[3].state = "starting"

\* The registry entries of the child pid.
EntriesOf(pid) == {id \in DOMAIN workers : workers[id].pid = pid}

\* C14 (as claimed): while the master runs, every live child has exactly one
\* registry entry, and an entry leaves the registry only in a step in which
\* the exit of its child is reported.
C14_RegistryMatchesChildren ==
  /\ [](master = "running" =>
          \A pid \in clusterWorkers : Cardinality(EntriesOf(pid)) = 1)
  /\ [][StaysUp =>
          \A id \in DOMAIN workers \ DOMAIN workers' : Exits(workers[id].pid)]_vars

\* C15: with one registry entry or none, handleScaleDown returns without any
\* effect, and no step begins a scale-down: none sets isScalingDown or enters
\* the scale-down's wait.
C15_ScaleDownRefused ==
  /\ []((master = "running" /\ Cardinality(DOMAIN workers) <= 1)
          => handleScaleDown(Cur) = Cur)
  /\ [][(StaysUp /\ Cardinality(DOMAIN workers) <= 1)
          => /\ ~(isScalingDown' /\ ~isScalingDown)
             /\ ~(sdPc' = "waitExit" /\ sdPc = "idle")]_vars

\* A pool of one ready worker with no transition in progress and the IPC
\* server up: POST /scale/down is accepted by no guard but the minimum.
C15_Witness ==
  /\ master = "running" /\ ipcServer
  /\ ~isShuttingDown /\ ~isReloading /\ ~isScalingDown
  /\ DOMAIN workers = {1} /\ workers[1].state = "ready" /\ sent[1] = 0
  /\ clusterWorkers = {1}

\* In this step a scale-down is accepted and starts waiting.
ScaleDownBegins == StaysUp /\ ~isScalingDown /\ isScalingDown'

\* In this step the scale-down in progress completes.
ScaleDownCompletes == StaysUp /\ isScalingDown /\ ~isScalingDown'

\* C16 (as claimed): when a scale-down completes, the registry is the registry
\* at its entry minus the lowest id of that registry.
C16_RegistryMinusOldest ==
  [][ScaleDownCompletes => DOMAIN workers' = sdEntry \ {Min(sdEntry)}]_vars

\* C16 (amended): an accepted scale-down picks the lowest id of the registry,
\* marks that worker draining and sends the shutdown token to it and to no
\* other, changing no other entry; the step that completes it leaves that
\* id out of the registry and removes no other entry, and forks only when a
\* reload is in progress (its loop resumes on the same exit); if the registry
\* just before completion is as it was at entry and the step forks nothing,
\* the registry after completion is the registry at entry minus that id, one
\* entry less.
C16_ScaleDownRetiresOldest ==
  [][/\ ScaleDownBegins =>
          /\ sdId' = Min(DOMAIN workers)
          /\ DOMAIN workers' = DOMAIN workers
          /\ workers'[sdId'].state = "draining"
          /\ \A id \in DOMAIN workers \ {sdId'} : workers'[id] = workers[id]
          /\ \A pid \in DOMAIN sent :
               TokenSentTo(pid) <=> pid = workers[sdId'].pid
          /\ sdEntry' = DOMAIN workers
     /\ ScaleDownCompletes =>
          /\ sdId = Min(sdEntry)
          /\ sdId \notin DOMAIN workers'
          /\ DOMAIN workers \ DOMAIN workers' \subseteq {sdId}
          /\ NewIds # {} => isReloading
          /\ (DOMAIN workers = sdEntry /\ NewIds = {}) =>
               /\ DOMAIN workers' = sdEntry \ {sdId}
               /\ Cardinality(DOMAIN workers') = Cardinality(sdEntry) - 1]_vars

\* A scale-down of a pool of two has completed undisturbed: worker 1 was sent
\* one token and has exited, worker 2 alone is left and no third was forked.
C16_Witness ==
  /\ master = "running" /\ ~isScalingDown /\ ~isReloading /\ ~isShuttingDown
  /\ sdPc = "idle" /\ nextWorkerId = 2
  /\ DOMAIN workers = {2} /\ clusterWorkers = {2} /\ sent[2] = 0

\* C17: a step of POST /scale/up taken during shutdown changes nothing; taken
\* otherwise it moves the id counter by one, adds the one entry of that fresh
\* id, in state starting and with a live child, and leaves every existing
\* entry, the flags and both transitions' positions as they were.
C17_ScaleUpAddsOne ==
  [][ScaleUp =>
       IF isShuttingDown
       THEN UNCHANGED vars
       ELSE /\ nextWorkerId' = nextWorkerId + 1
            /\ nextWorkerId' \notin DOMAIN workers
            /\ DOMAIN workers' = DOMAIN workers \cup {nextWorkerId'}
            /\ Cardinality(DOMAIN workers') = Cardinality(DOMAIN workers) + 1
            /\ workers'[nextWorkerId'].state = "starting"
            /\ workers'[nextWorkerId'].pid \in clusterWorkers' \ clusterWorkers
            /\ \A id \in DOMAIN workers : workers'[id] = workers[id]
            /\ \A pid \in DOMAIN sent : ~TokenSentTo(pid)
            /\ UNCHANGED <<isShuttingDown, isReloading, isScalingDown, rlPc,
                           rlSnap, rlIdx, rlNew, sdPc, sdId, killed>>]_vars

\* While a scale-down of a pool of two waits for worker 1, a scale-up has
\* added worker 3 (no exit is restarted and no reload has run meanwhile).
C17_Witness ==
  /\ master = "running" /\ isScalingDown /\ ~isReloading /\ ~isShuttingDown
  /\ sdEntry = {1, 2} /\ nextWorkerId = 3
  /\ DOMAIN workers = {1, 2, 3} /\ workers[3].state = "starting"
  /\ workers[1].state = "draining"

\* C18 (as claimed): while a stop that has arrived through POST /stop is not
\* yet handled, no command that arrived after it is handled: no step is the
\* handling of a reload, scale-up, scale-down or signal-borne shutdown with an
\* effect on the state.
C18_ArrivalOrder ==
  [][(master = "running" /\ pendingStops > 0)
       => ~(Reload \/ ScaleUp \/ ScaleDown \/ Shutdown)]_vars

\* C19 (as claimed): in the step in which the response to POST /stop is
\* written, isShuttingDown is false and no live worker has been sent the
\* shutdown token.
C19_AckWithNoShutdownAtAll ==
  [][IpcStop => /\ ~isShuttingDown
                /\ \A pid \in DOMAIN sent : sent[pid] = 0]_vars

\* C19 (amended): the step in which the response to POST /stop is written
\* only arms the timer of the stop: it leaves isShuttingDown as it was and
\* sends no token, so the shutdown this request asks for has not begun when
\* the response is written; a shutdown begun by a stop from POST /stop begins
\* in a later step that consumes an acknowledged stop.
C19_AckBeforeShutdown ==
  [][/\ IpcStop =>
          /\ pendingStops' = pendingStops + 1
          /\ isShuttingDown' = isShuttingDown
          /\ \A pid \in DOMAIN sent : ~TokenSentTo(pid)
          /\ UNCHANGED <<workers, clusterWorkers, isReloading, isScalingDown,
                         nextWorkerId, sent, killed, shutdownTimers,
                         checkIntervals, master, exitCode>>
     /\ (~isShuttingDown /\ isShuttingDown' /\ pendingStops' # pendingStops) =>
          (pendingStops > 0 /\ pendingStops' = pendingStops - 1)]_vars

\* The response to POST /stop has been written and the shutdown has not
\* begun: the stop is pending, the flag is clear, no child was sent anything.
C19_Witness ==
  /\ master = "running" /\ pendingStops = 1 /\ ~isShuttingDown
  /\ shutdownTimers = 0 /\ checkIntervals = 0
  /\ clusterWorkers # {}
  /\ \A pid \in clusterWorkers : sent[pid] = 0

\* Where a reload of workers 1..N stands in the scenario of rlScenario: with
\* the loop at step k, the old workers 1..k-1 are gone and k..N are in the
\* registry, those after k untouched; the replacements N+1..N+k are in the
\* registry, those before N+k ready; no other worker was forked; within step
\* k, worker k is untouched until replacement N+k is ready, and is draining
\* with one token sent, replacement N+k ready, while its exit is awaited.
OneStepAtATime ==
  LET N == Len(rlSnap)
      k == rlIdx
  IN /\ isReloading /\ rlPc \in {"waitReady", "waitExit"}
     /\ rlSnap = [i \in 1..N |-> i]
     /\ k \in 1..N
     /\ rlNew = N + k /\ nextWorkerId = N + k
     /\ DOMAIN workers = (k..N) \cup ((N + 1)..(N + k))
     /\ clusterWorkers = DOMAIN workers
     /\ \A id \in (k + 1)..N : workers[id].state = "ready" /\ sent[id] = 0
     /\ \A id \in (N + 1)..(N + k - 1) : workers[id].state = "ready" /\ sent[id] = 0
     /\ sent[N + k] = 0
     /\ rlPc = "waitReady" =>
          /\ workers[k].state = "ready" /\ sent[k] = 0
          /\ workers[N + k].state \in {"starting", "ready"}
     /\ rlPc = "waitExit" =>
          /\ workers[k].state = "draining" /\ sent[k] = 1
          /\ workers[N + k].state = "ready"

\* C20: a reload of workers 1..N, all ready, in which nothing happens but
\* replacements turning ready and retired workers exiting, goes through the
\* old ids in ascending order one step at a time (fork N+k, N+k ready, token
\* to k, k exits, then step k+1), and the step that ends it leaves exactly the
\* replacements N+1..2N in the registry, all ready.
C20_RollingReloadSequence ==
  /\ [](rlScenario => OneStepAtATime)
  /\ [][(rlScenario /\ ~isReloading' /\ ~Deviates(Cur, Cur')) =>
          LET N == Len(rlSnap) IN
          /\ rlIdx = N /\ rlPc = "waitExit" /\ Exits(N)
          /\ DOMAIN workers' = (N + 1)..(2 * N)
          /\ clusterWorkers' = (N + 1)..(2 * N)
          /\ nextWorkerId' = 2 * N
          /\ \A id \in DOMAIN workers' : workers'[id].state = "ready"]_vars

\* The undisturbed reload of workers 1 and 2 is in its last step: worker 1
\* has exited, replacements 3 and 4 are ready, worker 2 is draining with one
\* token sent and its exit is awaited.
C20_Witness ==
  /\ rlScenario /\ rlSnap = <<1, 2>> /\ rlIdx = 2 /\ rlPc = "waitExit"
  /\ DOMAIN workers = {2, 3, 4} /\ clusterWorkers = {2, 3, 4}
  /\ workers[2].state = "draining" /\ sent[2] = 1
  /\ workers[3].state = "ready" /\ workers[4].state = "ready"

----------------------------------------------------------------------------
\* In this step the reload loop resumes after the exit of the old worker it was
\* waiting for and forks the replacement of its next step.
ReloadForksNext(pid) ==
  /\ rlPc = "waitExit" /\ rlSnap[rlIdx] = pid
  /\ isReloading' /\ rlPc' = "waitReady"
  /\ nextWorkerId' = nextWorkerId + 1
  /\ rlNew' = nextWorkerId'

\* C27: when a child exits while isReloading or isScalingDown is set and
\* shutdown has not begun, its registry entry (if it has one) is gone after the
\* step and cluster.on('exit') forks nothing: the counter of ids is unchanged,
\* or the one fork of the step is the reload loop's, which was waiting for
\* this very exit and goes on to the next worker of its snapshot.
C27_ExpectedExit ==
  [][\A pid \in clusterWorkers :
       (/\ master = "running" /\ Exits(pid)
        /\ (isReloading \/ isScalingDown) /\ ~isShuttingDown)
       => /\ master' = "running"
          /\ \A id \in DOMAIN workers :
               workers[id].pid = pid => id \notin DOMAIN workers'
          /\ DOMAIN workers' \ DOMAIN workers \subseteq {rlNew'}
          /\ nextWorkerId' = nextWorkerId \/ ReloadForksNext(pid)]_vars

\* A reload of two workers has seen the first old worker exit while it waited
\* for that exit, and has gone on to the second step.
C27_Witness ==
  /\ master = "running" /\ isReloading /\ ~isShuttingDown /\ ~isScalingDown
  /\ Len(rlSnap) = 2 /\ rlIdx = 2 /\ rlPc = "waitReady"
  /\ rlSnap[1] \notin clusterWorkers
  /\ rlSnap[1] \notin DOMAIN workers
  /\ nextWorkerId = 4 /\ rlNew = 4
  /\ 3 \in DOMAIN workers /\ workers[3].state = "ready"

\* The registry entries in state draining.
Draining == {id \in DOMAIN workers : workers[id].state = "draining"}

\* C26 (as claimed): while no shutdown is in progress, at most one registry
\* entry is in state draining.
C26_AtMostOneDraining ==
  (master = "running" /\ ~isShuttingDown) => Cardinality(Draining) <= 1

\* C29 (as claimed): a registry entry is in state draining exactly while its
\* worker has been sent the shutdown token: every tracked worker that has been
\* sent the token, by the reload, by the scale-down or by the shutdown, is
\* draining until its entry is removed, and no other entry is draining.
C29_DrainingIffRetired ==
  master = "running" =>
    \A id \in DOMAIN workers :
      workers[id].pid \in DOMAIN sent =>
        (workers[id].state = "draining" <=> sent[workers[id].pid] > 0)

\* The position of a registry state in the order starting, ready, draining.
Rank(st) == CASE st = "starting" -> 1 [] st = "ready" -> 2 [] st = "draining" -> 3

\* C25 (as claimed): the state of a registry entry never moves backwards in
\* the order starting, ready, draining (a draining entry is never set back to
\* ready), and an id that has left the registry never comes back.
C25_StateOnlyForward ==
  [][/\ \A id \in DOMAIN workers \cap DOMAIN workers' :
          Rank(workers'[id].state) >= Rank(workers[id].state)
     /\ \A id \in DOMAIN workers' \ DOMAIN workers :
          master' = "running" => id > nextWorkerId]_vars

\* This step is cluster.on('message') for a 'ready' token of the worker id.
TokenFrom(id) ==
  /\ workers[id].pid \in clusterWorkers
  /\ Becomes(onMessageReady(Cur, workers[id].pid))

\* This step is an HTTP response to the probe of worker id, arriving before
\* the deadline of that probe.
ResponseInTime(id) ==
  /\ readyUrl /\ id \in DOMAIN probing
  /\ probing[id].pc = "request" /\ ~probing[id].late
  /\ Becomes(pollResponse(Cur, id))

\* C28 (as claimed): an entry goes from starting to ready only in a step that
\* is the worker's own ready token or, with readyUrl configured, an HTTP
\* response to its probe that arrives before the probe's deadline; a probe
\* that fails at transport level or times out changes no entry.
C28_ReadyOnlyOnEvidence ==
  [][/\ \A id \in DOMAIN workers \cap DOMAIN workers' :
          (workers[id].state = "starting" /\ workers'[id].state = "ready")
            => (TokenFrom(id) \/ ResponseInTime(id))
     /\ ProbeFails => workers' = workers]_vars

\* C30: under ReloadTimersSpec.  A reload in progress ends: isReloading is
\* cleared (by the loop running off its snapshot, or by the master exiting in
\* a shutdown), whether or not replacements become ready and old workers
\* exit; the model's fork bound is the one way out.  While it runs, a step of
\* the loop is one wait for the replacement followed by at most one wait for
\* the old worker, then the loop is at the next worker of the same snapshot;
\* and however a step ends (replacement not ready included), the reload ends
\* with it only if it was the step of the last worker of the snapshot.
C30_ReloadTerminates ==
  /\ (isReloading ~> (~isReloading \/ ForkBoundReached))
  /\ [][(StaysUp /\ isReloading /\ isReloading')
          => /\ rlSnap' = rlSnap
             /\ \/ rlIdx' = rlIdx /\ rlPc' = rlPc
                \/ rlIdx' = rlIdx /\ rlPc = "waitReady" /\ rlPc' = "waitExit"
                \/ rlIdx' = rlIdx + 1 /\ rlPc' = "waitReady"]_vars
  /\ [][(StaysUp /\ isReloading /\ ~isReloading') => rlIdx = Len(rlSnap)]_vars

\* A reload of two workers has ended although the first replacement never
\* became ready and the second old worker never exited: both were signalled
\* and are still alive.
C30_Witness ==
  /\ master = "running" /\ ~isReloading /\ ~isShuttingDown /\ ~isScalingDown
  /\ nextWorkerId = 4
  /\ DOMAIN workers = {1, 4}
  /\ killed = {2, 3}
  /\ {2, 3} \subseteq clusterWorkers

\* C24 (as claimed): a step taken while cluster.fork() throws neither ends the
\* master (outside a shutdown, where the master exits by design) nor leaves a
\* reload flagged as in progress with no handleReload left to finish it, and
\* no fork is counted.
C24_ForkFailureContained ==
  [][(master = "running" /\ spawnFails)
       => /\ master' = "exited" => isShuttingDown
          /\ (master' = "running" /\ isReloading') => rlPc' # "idle"
          /\ master' = "running" => nextWorkerId' = nextWorkerId]_vars

\* C21 (as claimed): when `gpdr start` finds a pid file that names a live
\* process, it ends with a non-zero status, no worker forked and the pid file
\* as it was; when the file names a process that no longer exists, the file
\* is removed and the start goes on.
C21_PidLockRespected ==
  [][(master = "cli" /\ pidFile)
       => IF pidNames = "dead"
          THEN master' = "checked" /\ ~pidFile'
          ELSE /\ master' = "exited" /\ exitCode' # <<0>>
               /\ pidFile' /\ pidNames' = pidNames
               /\ clusterWorkers' = {}]_vars

\* C22 (as claimed): once the master has ended, whether at the end of a
\* shutdown or in a startup that failed, its pid file and the port file are
\* gone (the pid file of another live process, and the port file next to it,
\* are not its own).
C22_FilesReleased ==
  master = "exited" =>
    /\ ~(pidFile /\ pidNames = "self")
    /\ portFile => (pidFile /\ pidNames \in {"live", "foreign"})

\* C23 (as claimed): when `gpdr stop` has ended after its wait ran out, its
\* exit status is 1; when it has ended with status 0, the master is gone.
C23_StopExitStatus ==
  spPc = "done" =>
    IF spTries = MaxStopTries
    THEN spExit = <<1>>
    ELSE spExit = <<0>> => master = "exited"

----------------------------------------------------------------------------
\* The ids of currentWorkers, the snapshot of the reload in progress.
SnapshotIds == {rlSnap[i] : i \in 1..Len(rlSnap)}

\* In this step the reload loop forks a replacement: forkWorker followed by
\* newWorkerId = getLastWorkerId().
ReloadForks ==
  /\ nextWorkerId' = nextWorkerId + 1
  /\ isReloading' /\ rlNew' = nextWorkerId' /\ rlPc' = "waitReady"

\* C31: a reload walks the snapshot taken at its entry.  The snapshot is the
\* registry's ids at entry and does not change while the reload runs; every
\* replacement the loop forks is forked for a position of the snapshot that it
\* has just moved to, so there is at most one per snapshot id; the worker the
\* loop retires is the snapshot id it is at; and a worker that is neither in
\* the snapshot nor the replacement of the current step (one added by
\* scale-up) keeps its registry entry unless it exits, is sent no token and is
\* not killed, in every step that does not begin a shutdown.
C31_ReloadWalksSnapshot ==
  [][StaysUp =>
       /\ (~isReloading /\ isReloading')
            => /\ SnapshotIds' = DOMAIN workers
               /\ Len(rlSnap') = Cardinality(DOMAIN workers)
               /\ rlIdx' = 1
       /\ (isReloading /\ isReloading')
            => /\ rlSnap' = rlSnap
               /\ rlIdx' \in {rlIdx, rlIdx + 1}
       /\ ReloadForks
            => /\ rlIdx' \in 1..Len(rlSnap')
               /\ isReloading => rlIdx' = rlIdx + 1
       /\ \A pid \in DOMAIN sent :
            ReloadRetires(pid) => pid = rlSnap[rlIdx] /\ pid \in SnapshotIds
       /\ (isReloading /\ isShuttingDown' = isShuttingDown)
            => \A id \in DOMAIN workers \ (SnapshotIds \cup {rlNew}) :
                 /\ ~TokenSentTo(workers[id].pid)
                 /\ workers[id].pid \notin killed' \ killed
                 /\ \/ id \in DOMAIN workers' /\ workers'[id].pid = workers[id].pid
                    \/ Exits(workers[id].pid)]_vars

\* A reload of a pool of one is waiting for worker 1, which it has retired
\* for its replacement 2; worker 3, added by scale-up while the reload runs,
\* is in the registry and has not been asked to stop.
C31_Witness ==
  /\ master = "running" /\ isReloading /\ ~isShuttingDown /\ ~isScalingDown
  /\ rlSnap = <<1>> /\ rlIdx = 1 /\ rlNew = 2 /\ rlPc = "waitExit"
  /\ nextWorkerId = 3 /\ DOMAIN workers = {1, 2, 3}
  /\ workers[1].state = "draining" /\ sent[1] = 1
  /\ sent[3] = 0 /\ killed = {}

----------------------------------------------------------------------------
\* In this step the pollReadyUrl of worker id leaves its loop on the deadline
\* with the worker still in the registry in state starting (lines 200-204).
ProbeGivesUp(id) ==
  /\ id \in DOMAIN probing /\ probing[id].pc = "sleep" /\ probing[id].late
  /\ id \notin DOMAIN probing'
  /\ id \in DOMAIN workers /\ workers[id].state = "starting"

\* C32: when the readiness wait of a worker ends on its deadline, nothing
\* happens to the worker: its entry stays in the registry in state starting,
\* no child is killed or sent a token, and nothing is forked.  A worker is
\* forked only by the reload loop, by scale-up, or in the step in which a
\* child's exit is reported.
C32_ReadyTimeoutLeavesStarting ==
  [][StaysUp =>
       /\ \A id \in DOMAIN probing :
            ProbeGivesUp(id)
              => /\ workers' = workers
                 /\ clusterWorkers' = clusterWorkers
                 /\ killed' = killed /\ sent' = sent
                 /\ nextWorkerId' = nextWorkerId
       /\ nextWorkerId' # nextWorkerId
            => \/ ReloadForks
               \/ ScaleUp
               \/ \E pid \in clusterWorkers : Exits(pid)]_vars

\* Worker 1 of the initial fill has run out of its readiness wait: it is still
\* in the registry in state starting, alive, not killed, and nothing was forked.
C32_Witness ==
  /\ master = "running" /\ readyUrl
  /\ ~isReloading /\ ~isScalingDown /\ ~isShuttingDown
  /\ nextWorkerId = 1 /\ DOMAIN workers = {1} /\ workers[1].state = "starting"
  /\ 1 \notin DOMAIN probing
  /\ clusterWorkers = {1} /\ killed = {} /\ sent[1] = 0

----------------------------------------------------------------------------
\* This step leaves the registry, the children, the transition flags and the
\* id counter as they are.
SupervisorUnchanged ==
  /\ workers' = workers /\ nextWorkerId' = nextWorkerId
  /\ isReloading' = isReloading /\ isScalingDown' = isScalingDown
  /\ isShuttingDown' = isShuttingDown
  /\ clusterWorkers' = clusterWorkers /\ sent' = sent /\ killed' = killed

CommandRoutes == {"POST /reload", "POST /stop", "POST /scale/up", "POST /scale/down"}

\* C33: a step in which the IPC server answers a request changes the
\* supervisor only through the one command it forwards.  GET /status is
\* answered 200, an unknown route 404 and a command route with no handler
\* registered 500, each leaving registry, children, flags and id counter
\* unchanged and forwarding nothing.  A command route with a handler is
\* answered 200 and passes exactly one command, its own, to the handler:
\* at once for reload and scale, and for stop through the one timer it arms
\* (the answering step itself changes nothing, and each timer that fires
\* takes one pending stop).
C33_IpcOnlyForwards ==
  [][StaysUp =>
       /\ ipcLast' # NoResponse =>
            LET r == ipcLast' IN
            /\ r.route = "GET /status"
                 => r.status = 200 /\ r.forwarded = <<>> /\ SupervisorUnchanged
                    /\ pendingStops' = pendingStops
            /\ r.route = "GET /nowhere"
                 => r.status = 404 /\ r.forwarded = <<>> /\ SupervisorUnchanged
                    /\ pendingStops' = pendingStops
            /\ (r.route \in CommandRoutes /\ ~commandCallback)
                 => r.status = 500 /\ r.forwarded = <<>> /\ SupervisorUnchanged
                    /\ pendingStops' = pendingStops
            /\ (r.route \in CommandRoutes \ {"POST /stop"} /\ commandCallback)
                 => r.status = 200 /\ r.forwarded = <<CommandOf(r.route)>>
                    /\ pendingStops' = pendingStops
            /\ (r.route = "POST /stop" /\ commandCallback)
                 => r.status = 200 /\ r.forwarded = <<>> /\ SupervisorUnchanged
                    /\ pendingStops' = pendingStops + 1
       /\ pendingStops' < pendingStops
            => pendingStops' = pendingStops - 1 /\ ipcLast' = NoResponse]_vars

\* The IPC server, started without a command handler, has just answered
\* POST /scale/up with 500: the pool is the initial worker, nothing forked.
C33_Witness ==
  /\ master = "running" /\ ipcServer /\ ~commandCallback
  /\ ipcLast = [route |-> "POST /scale/up", status |-> 500, forwarded |-> <<>>]
  /\ nextWorkerId = 1 /\ DOMAIN workers = {1} /\ clusterWorkers = {1}
  /\ ~isReloading /\ ~isScalingDown /\ ~isShuttingDown

----------------------------------------------------------------------------
\* C34 (as claimed): when the exit is reported of a child that the master has
\* killed and whose entry it has already removed from the registry, nothing
\* is forked in that step.
C34_NoRestartForRemoved ==
  [][\A pid \in clusterWorkers :
       (/\ StaysUp /\ Exits(pid)
        /\ pid \in killed
        /\ findWorkerByPid(Cur, pid) = 0)
       => nextWorkerId' = nextWorkerId]_vars

----------------------------------------------------------------------------
\* C35 (as claimed): isReloading is set only while handleReload is suspended
\* at one of its awaits, and isScalingDown only while handleScaleDown is
\* suspended at its await; once the procedure has ended, for whatever reason,
\* its flag is false.
C35_FlagsOnlyWhileExecuting ==
  master = "running" =>
    /\ isReloading => rlPc \in {"waitReady", "waitExit"}
    /\ isScalingDown => sdPc = "waitExit"

----------------------------------------------------------------------------
\* C36 (as claimed): the master exits with status 0 only when none of the
\* children it forked is still alive.
C36_ExitZeroNoChildLeft ==
  [][(master = "running" /\ isShuttingDown
      /\ master' = "exited" /\ exitCode' = <<0>>)
       => clusterWorkers' = {}]_vars

----------------------------------------------------------------------------
\* In this step the pollReadyUrl of worker id gets a response and marks the
\* worker ready.
ProbeMarksReady(id) ==
  /\ id \in DOMAIN probing /\ probing[id].pc = "request"
  /\ id \notin DOMAIN probing'
  /\ id \in DOMAIN workers /\ workers[id].state # "ready"
  /\ id \in DOMAIN workers' /\ workers'[id].state = "ready"

\* C37 (as claimed): the probe marks a worker ready only if that worker's
\* own accept loop is up.
C37_ProbeReadyOnlyIfServing ==
  [][\A id \in DOMAIN probing :
       (StaysUp /\ ProbeMarksReady(id)) => workers[id].pid \in listening]_vars

----------------------------------------------------------------------------
\* C38 (as claimed): when a scale-down is accepted while some worker is in
\* state ready, some worker is in state ready after the step that marks the
\* retired worker draining.
C38_ScaleDownKeepsAReady ==
  [][(ScaleDownBegins /\ \E id \in DOMAIN workers : workers[id].state = "ready")
       => \E id \in DOMAIN workers' : workers'[id].state = "ready"]_vars

----------------------------------------------------------------------------
\* C39 (as claimed): of two `gpdr start` run in the same directory at most
\* one becomes a master: never is this one running with workers while the
\* other runs as a master too.
C39_AtMostOneMaster ==
  ~(master = "running" /\ clusterWorkers # {} /\ other = "running")

----------------------------------------------------------------------------
\* C40: the health check calls its failure callback only in a step that
\* handles a failed check which is at least the threshold-th in a row, counted
\* from the last healthy check and from the last call of the callback; the
\* call leaves failureCount at zero, and so does every healthy check.
C40_CallbackAfterThreshold ==
  [][StaysUp =>
       /\ hcFired' => /\ hcStreak + 1 >= healthCheck[1]
                      /\ failureCount' = 0 /\ hcStreak' = 0
       /\ (hcStreak' = 0 /\ hcStreak > 0) => failureCount' = 0
       /\ failureCount' <= hcStreak']_vars

\* With threshold 2 the callback has just fired and begun a reload: worker 2
\* is the replacement it forked for worker 1.
C40_Witness ==
  /\ master = "running" /\ healthCheck = <<2>>
  /\ hcFired /\ failureCount = 0 /\ hcStreak = 0
  /\ isReloading /\ rlSnap = <<1>> /\ rlNew = 2 /\ nextWorkerId = 2
====
